---------------------------- MODULE Spec2Model ----------------------------
(***************************************************************************)
(* Influence maximization by Reverse Influence Sampling (ADFCRIS).         *)
(*                                                                         *)
(*   src/src/adfcris/core/coverage.py   find_seed_set  (greedy selector)   *)
(*   src/src/adfcris/core/ris.py        generate_rr_set, and               *)
(*                                      generate_rr_sets_collection        *)
(*                                                                         *)
(* Python indexes the RR collection from 0; the sequences here are indexed *)
(* from 1, so RR set i of the model is rr_sets[i-1] of the code.  Vertex   *)
(* ids are kept as in the code (0 .. num_vertices-1).                      *)
(***************************************************************************)
EXTENDS Integers, Sequences, FiniteSets, TLC

VARIABLES
    \* ---- find_seed_set: arguments, locals, control ----
    rr_sets,             \* argument: sequence of sets of vertex ids
    k,                   \* argument: budget
    num_vertices,        \* argument
    node_to_rr_indices,  \* local: vertex -> ascending sequence of RR indices
    marginal_gains,      \* local: vertex -> int (np.int32), -1 = selected
    seed_set,            \* local / return value
    covered_rr_mask,     \* local: RR index -> BOOLEAN
    iter,                \* number of iterations of `for _ in range(k)` begun
    best_node,           \* local of the current iteration
    pos,                 \* position of the inner loop in node_to_rr_indices[best_node]
    pc,                  \* "idle" | "call" | "select" | "update" | "returned" | "raised"
    exception,           \* "none" | "ValueError" | "IndexError" | "TypeError"
    \* ---- observers of the decrement pass (lines 76-79) ----
    pass_count,          \* RR index -> number of decrement passes begun over it
    decrement_work,      \* total number of executions of line 79
    \* ---- the caller: an earlier completed call on the same collection ----
    repeated,            \* TRUE once the second call has been issued
    prev_k,              \* budget of the earlier call
    prev_seed_set,       \* its return value
    \* ---- generate_rr_sets_collection: arguments, locals, control ----
    g,                   \* argument: the graph and its edge property 'p'
    num_samples,         \* argument
    gen_rr_sets,         \* the list built at line 78 / return value
    gen_pc,              \* "idle" | "call" | "sampling" | "in_sampler" | "returned" | "raised"
    gen_exception,       \* "none" | "ValueError" | "TypeError"
    sampler_calls,       \* number of calls of generate_rr_set so far
    \* ---- generate_rr_set: locals of the call in progress ----
    root_node,           \* line 33
    random_values,       \* line 36: one draw per edge
    reachable_nodes      \* line 47, as a set

selVars == <<rr_sets, k, num_vertices, node_to_rr_indices, marginal_gains,
             seed_set, covered_rr_mask, iter, best_node, pos, pc, exception,
             pass_count, decrement_work, repeated, prev_k, prev_seed_set>>

genVars == <<g, num_samples, gen_rr_sets, gen_pc, gen_exception, sampler_calls,
             root_node, random_values, reachable_nodes>>

vars == <<selVars, genVars>>

--------------------------------------------------------------------------
(* Bounds of the selector's inputs *)

\* vertex ids that may occur in an RR set are 0 .. MaxId
MaxId == 2
\* an RR collection holds at most MaxSets RR sets
MaxSets == 3
\* and at most MaxMembers memberships in all (the sum of the RR set sizes)
MaxMembers == 5

Ids == 0 .. MaxId
\* num_vertices ranges over 0 .. MaxId + 1: below MaxId + 1 some ids are out of range
VertexCounts == 0 .. (MaxId + 1)
\* budgets range from 0 to the largest vertex count, past every smaller one
\* (and CallAgain adds one)
Budgets == 0 .. (MaxId + 1)

--------------------------------------------------------------------------
(* Helpers *)

RECURSIVE SumOver(_, _)
SumOver(f, S) ==
    IF S = {} THEN 0
    ELSE LET x == CHOOSE y \in S : TRUE IN f[x] + SumOver(f, S \ {x})

Indices(rr) == [i \in 1 .. Len(rr) |-> i]

SeqRange(s) == {s[i] : i \in 1 .. Len(s)}

\* the sum of the RR set sizes
TotalSize(rr) == SumOver([i \in 1 .. Len(rr) |-> Cardinality(rr[i])], 1 .. Len(rr))

Collections ==
    {rr \in UNION {[1 .. m -> SUBSET Ids] : m \in 0 .. MaxSets} :
        TotalSize(rr) <= MaxMembers}

IsPrefix(s, t) == Len(s) <= Len(t) /\ \A i \in 1 .. Len(s) : s[i] = t[i]

--------------------------------------------------------------------------
(* find_seed_set *)

\* lines 35-39: the inverted index; ids >= num_vertices are left out
NodeToRRIndices(rr, n) ==
    [v \in 0 .. (n - 1) |->
        SelectSeq(Indices(rr), LAMBDA i : v \in rr[i] /\ v < n)]

\* lines 43-45
InitialGains(index, n) == [v \in 0 .. (n - 1) |-> Len(index[v])]

\* variant: the last index holding the maximum
ArgMaxLast(gains, n) ==
    CHOOSE v \in 0 .. (n - 1) :
        /\ \A u \in 0 .. (n - 1) : gains[u] <= gains[v]
        /\ \A u \in (v + 1) .. (n - 1) : gains[u] < gains[v]

\* line 54: np.argmax returns the first index holding the maximum
ArgMax(gains, n) ==
    CHOOSE v \in 0 .. (n - 1) :
        /\ \A u \in 0 .. (n - 1) : gains[u] <= gains[v]
        /\ \A u \in 0 .. (v - 1) : gains[u] < gains[v]

\* variant: the loop also stops on a best gain of 1
NoGainAboveOne(gain) == gain <= 1

\* line 57: the early-stop test on the best gain
NoGainLeft(gain) == gain = 0

\* variant: the new seed is put in front
PrependSeed(seeds, v) == <<v>> \o seeds

\* line 61
AppendSeed(seeds, v) == Append(seeds, v)

\* variant: the mask is not consulted
NeedsPassAlways(mask, i) == TRUE

\* line 70: the RR set takes a decrement pass only if it is not yet covered
NeedsPass(mask, i) == ~mask[i]

\* variant: the RR set is left unmarked
MarkNothing(mask, i) == mask

\* line 72
MarkCovered(mask, i) == [mask EXCEPT ![i] = TRUE]

\* line 78: the sentinel test guarding the decrement
NotSelected(gains, u) == gains[u] # -1

\* lines 76-79 over one RR set whose ids are all in range
DecrementPass(gains, rr_set) ==
    [u \in DOMAIN gains |->
        IF u \in rr_set /\ NotSelected(gains, u) THEN gains[u] - 1 ELSE gains[u]]

\* number of executions of line 79 in that pass
DecrementCount(gains, rr_set) ==
    Cardinality({u \in rr_set \cap DOMAIN gains : NotSelected(gains, u)})

\* lines 30-31
EarlyReturn ==
    /\ pc = "call"
    /\ (rr_sets = <<>> \/ k = 0)
    /\ seed_set' = <<>>
    /\ pc' = "returned"
    /\ UNCHANGED <<rr_sets, k, num_vertices, node_to_rr_indices, marginal_gains,
                   covered_rr_mask, iter, best_node, pos, exception,
                   pass_count, decrement_work, repeated, prev_k, prev_seed_set, genVars>>

\* lines 33-48
BuildIndex ==
    /\ pc = "call"
    /\ ~(rr_sets = <<>> \/ k = 0)
    /\ node_to_rr_indices' = NodeToRRIndices(rr_sets, num_vertices)
    /\ marginal_gains' = InitialGains(node_to_rr_indices', num_vertices)
    /\ seed_set' = <<>>
    /\ covered_rr_mask' = [i \in 1 .. Len(rr_sets) |-> FALSE]
    /\ pass_count' = [i \in 1 .. Len(rr_sets) |-> 0]
    /\ decrement_work' = 0
    /\ iter' = 0
    /\ pc' = "select"
    /\ UNCHANGED <<rr_sets, k, num_vertices, best_node, pos, exception,
                   repeated, prev_k, prev_seed_set, genVars>>

\* line 54 on an empty gain table: np.argmax raises ValueError
ArgMaxRaises ==
    /\ pc = "select"
    /\ iter < k
    /\ num_vertices = 0
    /\ pc' = "raised"
    /\ exception' = "ValueError"
    /\ UNCHANGED <<rr_sets, k, num_vertices, node_to_rr_indices, marginal_gains,
                   seed_set, covered_rr_mask, iter, best_node, pos,
                   pass_count, decrement_work, repeated, prev_k, prev_seed_set, genVars>>

\* lines 51-58, 81-82: the best gain is 0, break and return
StopEarly ==
    /\ pc = "select"
    /\ iter < k
    /\ num_vertices > 0
    /\ NoGainLeft(marginal_gains[ArgMax(marginal_gains, num_vertices)])
    /\ pc' = "returned"
    /\ UNCHANGED <<rr_sets, k, num_vertices, node_to_rr_indices, marginal_gains,
                   seed_set, covered_rr_mask, iter, best_node, pos, exception,
                   pass_count, decrement_work, repeated, prev_k, prev_seed_set, genVars>>

\* lines 51-64: select the best node, append it, overwrite its gain with -1
SelectBest ==
    /\ pc = "select"
    /\ iter < k
    /\ num_vertices > 0
    /\ LET best == ArgMax(marginal_gains, num_vertices) IN
        /\ ~NoGainLeft(marginal_gains[best])
        /\ best_node' = best
        /\ seed_set' = AppendSeed(seed_set, best)
        /\ marginal_gains' = [marginal_gains EXCEPT ![best] = -1]
        /\ pc' = IF Len(node_to_rr_indices[best]) = 0 THEN "select" ELSE "update"
    /\ iter' = iter + 1
    /\ pos' = 1
    /\ UNCHANGED <<rr_sets, k, num_vertices, node_to_rr_indices,
                   covered_rr_mask, exception,
                   pass_count, decrement_work, repeated, prev_k, prev_seed_set, genVars>>

\* the inner loop moves on; after the last index the outer loop resumes
Advance ==
    /\ pos' = pos + 1
    /\ pc' = IF pos = Len(node_to_rr_indices[best_node]) THEN "select" ELSE "update"

\* lines 68-70: the RR set is already covered, skip it
SkipCovered ==
    /\ pc = "update"
    /\ LET rr_index == node_to_rr_indices[best_node][pos] IN
        ~NeedsPass(covered_rr_mask, rr_index)
    /\ Advance
    /\ UNCHANGED <<rr_sets, k, num_vertices, node_to_rr_indices, marginal_gains,
                   seed_set, covered_rr_mask, iter, best_node, exception,
                   pass_count, decrement_work, repeated, prev_k, prev_seed_set, genVars>>

\* lines 70-79: mark the RR set covered and decrement its other members
CoverAndDecrement ==
    /\ pc = "update"
    /\ LET rr_index == node_to_rr_indices[best_node][pos]
           rr_set == rr_sets[rr_index] IN
        /\ NeedsPass(covered_rr_mask, rr_index)
        /\ rr_set \subseteq DOMAIN marginal_gains
        /\ covered_rr_mask' = MarkCovered(covered_rr_mask, rr_index)
        /\ marginal_gains' = DecrementPass(marginal_gains, rr_set)
        /\ pass_count' = [pass_count EXCEPT ![rr_index] = @ + 1]
        /\ decrement_work' = decrement_work + DecrementCount(marginal_gains, rr_set)
    /\ Advance
    /\ UNCHANGED <<rr_sets, k, num_vertices, node_to_rr_indices,
                   seed_set, iter, best_node, exception,
                   repeated, prev_k, prev_seed_set, genVars>>

\* line 78 on an id >= num_vertices: marginal_gains[node_in_set] raises
\* IndexError.  The RR set is already marked (line 72).  CPython iterates a
\* small set of small ints in ascending order, so the in-range members, all
\* smaller than the offending id, have been decremented; the frame and its
\* locals are then discarded.
DecrementRaises ==
    /\ pc = "update"
    /\ LET rr_index == node_to_rr_indices[best_node][pos]
           rr_set == rr_sets[rr_index] IN
        /\ NeedsPass(covered_rr_mask, rr_index)
        /\ ~(rr_set \subseteq DOMAIN marginal_gains)
        /\ covered_rr_mask' = MarkCovered(covered_rr_mask, rr_index)
        /\ marginal_gains' = DecrementPass(marginal_gains, rr_set)
        /\ pass_count' = [pass_count EXCEPT ![rr_index] = @ + 1]
        /\ decrement_work' = decrement_work + DecrementCount(marginal_gains, rr_set)
    /\ pc' = "raised"
    /\ exception' = "IndexError"
    /\ UNCHANGED <<rr_sets, k, num_vertices, node_to_rr_indices,
                   seed_set, iter, best_node, pos,
                   repeated, prev_k, prev_seed_set, genVars>>

\* lines 51, 81-82: range(k) is exhausted, return seed_set
LoopExhausted ==
    /\ pc = "select"
    /\ iter = k
    /\ pc' = "returned"
    /\ UNCHANGED <<rr_sets, k, num_vertices, node_to_rr_indices, marginal_gains,
                   seed_set, covered_rr_mask, iter, best_node, pos, exception,
                   pass_count, decrement_work, repeated, prev_k, prev_seed_set, genVars>>

\* the caller calls find_seed_set once more on the same collection and vertex
\* count, with the same budget or with one more; the locals of the finished
\* call are gone, only its return value is kept
CallAgain ==
    /\ pc = "returned"
    /\ ~repeated
    /\ repeated' = TRUE
    /\ prev_k' = k
    /\ prev_seed_set' = seed_set
    /\ k' \in {k, k + 1}
    /\ pc' = "call"
    /\ node_to_rr_indices' = <<>>
    /\ marginal_gains' = <<>>
    /\ seed_set' = <<>>
    /\ covered_rr_mask' = <<>>
    /\ pass_count' = <<>>
    /\ decrement_work' = 0
    /\ iter' = 0
    /\ best_node' = 0
    /\ pos' = 1
    /\ UNCHANGED <<rr_sets, num_vertices, exception, genVars>>

--------------------------------------------------------------------------
(* The graph and its edge property map 'p' *)

\* graphs have at most MaxGraphVertices vertices and MaxEdges edges
MaxGraphVertices == 3
MaxEdges == 2
\* Fixed point: the float x of the code is the integer x * ProbScale.  The
\* probabilities are then 0 .. ProbScale (0.0, 0.5, 1.0) and a draw of
\* np.random.rand, which lies in [0, 1), is one of 0 .. ProbScale - 1, so that
\* a draw may fall below, on and above a probability.
ProbScale == 2
\* generate_rr_sets_collection is asked for at most MaxSamples RR sets
MaxSamples == 2

Probs == 0 .. ProbScale
Draws == 0 .. (ProbScale - 1)

\* the answers of p_map.value_type(), character by character
TypeDouble == <<"d", "o", "u", "b", "l", "e">>
TypeLongDouble == <<"l", "o", "n", "g", " ">> \o TypeDouble
TypeInt32 == <<"i", "n", "t", "3", "2", "_", "t">>
TypeBool == <<"b", "o", "o", "l">>
TypeString == <<"s", "t", "r", "i", "n", "g">>
TypeVectorDouble == <<"v", "e", "c", "t", "o", "r", "<">> \o TypeDouble \o <<">">>
TypeMissing == <<>>  \* no edge property named 'p': edge_properties["p"] raises KeyError

WordFloat == <<"f", "l", "o", "a", "t">>

\* graph-tool's scalar floating-point value types
ScalarFloatTypes == {TypeDouble, TypeLongDouble}
\* the value types whose property map has an array view (p_map.a is not None)
ScalarTypes == {TypeDouble, TypeLongDouble, TypeInt32, TypeBool}
ValueTypes == {TypeDouble, TypeLongDouble, TypeInt32, TypeBool, TypeString,
               TypeVectorDouble}

\* Python's `needle in hay` on strings
Contains(hay, needle) ==
    \E i \in 0 .. (Len(hay) - Len(needle)) :
        \A j \in 1 .. Len(needle) : hay[i + j] = needle[j]

\* one ordering per edge set: lines 36-37 treat the edges elementwise, whatever
\* their index.  No self-loops and no duplicate edges, as the loader builds graphs.
EdgeLess(e, f) == e[1] < f[1] \/ (e[1] = f[1] /\ e[2] < f[2])

EdgeLists(n, m) ==
    {es \in UNION {[1 .. j -> (0 .. (n - 1)) \X (0 .. (n - 1))] : j \in 0 .. m} :
        /\ \A i \in 1 .. Len(es) : es[i][1] # es[i][2]
        /\ \A i \in 1 .. (Len(es) - 1) : EdgeLess(es[i], es[i + 1])}

\* graphs whose 'p' is of value type t, with probabilities drawn from ps
GraphsOfType(maxV, maxE, t, ps) ==
    UNION {UNION {{[num_vertices |-> n, edges |-> es, p_type |-> t, p |-> pm] :
                        pm \in [1 .. Len(es) -> ps]} :
                    es \in EdgeLists(n, maxE)} :
            n \in 0 .. maxV}

--------------------------------------------------------------------------
(* generate_rr_set *)

\* line 47: np.iinfo(np.int32).max, the distance of an unreachable vertex
Int32Max == 2147483647

\* variant: greater or equal
EdgeActiveOrEqual(p, rv) == [e \in DOMAIN p |-> p[e] >= rv[e]]

\* line 37: np.greater(p_map.a, random_values, out=edge_active.a)
EdgeActive(p, rv) == [e \in DOMAIN p |-> p[e] > rv[e]]

\* variant: the filtered view is not reversed
ForwardLiveEdges(edges, active) ==
    {<<edges[e][1], edges[e][2]>> : e \in {x \in DOMAIN edges : active[x]}}

\* lines 39-42: the view filtered by edge_active, then reversed
ReversedLiveEdges(edges, active) ==
    {<<edges[e][2], edges[e][1]>> : e \in {x \in DOMAIN edges : active[x]}}

\* line 45: gt.shortest_distance from source, breadth first; a vertex never
\* reached keeps Int32Max
RECURSIVE Relax(_, _, _, _)
Relax(dist, frontier, d, E) ==
    IF frontier = {} THEN dist
    ELSE LET next == {v \in DOMAIN dist :
                        dist[v] = Int32Max /\ \E u \in frontier : <<u, v>> \in E}
         IN Relax([v \in DOMAIN dist |-> IF v \in next THEN d + 1 ELSE dist[v]],
                  next, d + 1, E)

ShortestDistance(n, E, source) ==
    Relax([v \in 0 .. (n - 1) |-> IF v = source THEN 0 ELSE Int32Max],
          {source}, 0, E)

\* lines 47-48
ReachableNodes(dist) == {v \in DOMAIN dist : dist[v] < Int32Max}

\* lines 33-48 for a drawn root and drawn random values
RRSetOf(gr, root, rv) ==
    ReachableNodes(
        ShortestDistance(gr.num_vertices,
                         ReversedLiveEdges(gr.edges, EdgeActive(gr.p, rv)),
                         root))

--------------------------------------------------------------------------
(* generate_rr_sets_collection *)

\* line 69
TypeRejected(t) == ~Contains(t, WordFloat) /\ ~Contains(t, TypeDouble)

\* lines 63-64
ReturnEmpty ==
    /\ gen_pc = "call"
    /\ num_samples <= 0
    /\ gen_rr_sets' = <<>>
    /\ gen_pc' = "returned"
    /\ UNCHANGED <<g, num_samples, gen_exception, sampler_calls, root_node,
                   random_values, reachable_nodes, selVars>>

\* lines 67, 73-76: KeyError becomes ValueError
MissingProperty ==
    /\ gen_pc = "call"
    /\ num_samples > 0
    /\ g.p_type = TypeMissing
    /\ gen_pc' = "raised"
    /\ gen_exception' = "ValueError"
    /\ UNCHANGED <<g, num_samples, gen_rr_sets, sampler_calls, root_node,
                   random_values, reachable_nodes, selVars>>

\* lines 69-72: TypeError, which `except KeyError` lets through
WrongType ==
    /\ gen_pc = "call"
    /\ num_samples > 0
    /\ g.p_type # TypeMissing
    /\ TypeRejected(g.p_type)
    /\ gen_pc' = "raised"
    /\ gen_exception' = "TypeError"
    /\ UNCHANGED <<g, num_samples, gen_rr_sets, sampler_calls, root_node,
                   random_values, reachable_nodes, selVars>>

\* lines 66-72 pass: the comprehension of line 78 starts
Validated ==
    /\ gen_pc = "call"
    /\ num_samples > 0
    /\ g.p_type # TypeMissing
    /\ ~TypeRejected(g.p_type)
    /\ gen_pc' = "sampling"
    /\ UNCHANGED <<g, num_samples, gen_rr_sets, gen_exception, sampler_calls,
                   root_node, random_values, reachable_nodes, selVars>>

\* line 78 calling generate_rr_set on a graph without vertices: lines 29-31
SampleEmptyGraph ==
    /\ gen_pc = "sampling"
    /\ Len(gen_rr_sets) < num_samples
    /\ g.num_vertices = 0
    /\ sampler_calls' = sampler_calls + 1
    /\ gen_rr_sets' = Append(gen_rr_sets, {})
    /\ UNCHANGED <<g, num_samples, gen_pc, gen_exception, root_node,
                   random_values, reachable_nodes, selVars>>

\* line 78 calling generate_rr_set: lines 29-47, up to the return
DrawSample ==
    /\ gen_pc = "sampling"
    /\ Len(gen_rr_sets) < num_samples
    /\ g.num_vertices > 0
    /\ g.p_type \in ScalarTypes \/ Len(g.edges) = 0
    /\ sampler_calls' = sampler_calls + 1
    /\ \E root \in 0 .. (g.num_vertices - 1) :
       \E rv \in [1 .. Len(g.edges) -> Draws] :
        /\ root_node' = root
        /\ random_values' = rv
        /\ reachable_nodes' = RRSetOf(g, root, rv)
    /\ gen_pc' = "in_sampler"
    /\ UNCHANGED <<g, num_samples, gen_rr_sets, gen_exception, selVars>>

\* line 48, and line 78 taking the returned set into the list; the locals of
\* generate_rr_set are gone
ReturnRRSet ==
    /\ gen_pc = "in_sampler"
    /\ gen_rr_sets' = Append(gen_rr_sets, reachable_nodes)
    /\ root_node' = 0
    /\ random_values' = <<>>
    /\ reachable_nodes' = {}
    /\ gen_pc' = "sampling"
    /\ UNCHANGED <<g, num_samples, gen_exception, sampler_calls, selVars>>

\* line 37 on a property map without an array view: p_map.a is None, and
\* comparing None with a float raises TypeError inside generate_rr_set (with no
\* edges there is nothing to compare, and DrawSample applies)
SampleRaises ==
    /\ gen_pc = "sampling"
    /\ Len(gen_rr_sets) < num_samples
    /\ g.num_vertices > 0
    /\ ~(g.p_type \in ScalarTypes \/ Len(g.edges) = 0)
    /\ sampler_calls' = sampler_calls + 1
    /\ gen_pc' = "raised"
    /\ gen_exception' = "TypeError"
    /\ UNCHANGED <<g, num_samples, gen_rr_sets, root_node, random_values,
                   reachable_nodes, selVars>>

\* lines 80-81
CollectionReturn ==
    /\ gen_pc = "sampling"
    /\ Len(gen_rr_sets) = num_samples
    /\ gen_pc' = "returned"
    /\ UNCHANGED <<g, num_samples, gen_rr_sets, gen_exception, sampler_calls,
                   root_node, random_values, reachable_nodes, selVars>>

--------------------------------------------------------------------------
(* Specifications *)

NoGraph == [num_vertices |-> 0, edges |-> <<>>, p_type |-> TypeMissing, p |-> <<>>]

\* generate_rr_sets_collection has not been entered
FreshGenerator ==
    /\ gen_rr_sets = <<>>
    /\ gen_exception = "none"
    /\ sampler_calls = 0
    /\ root_node = 0
    /\ random_values = <<>>
    /\ reachable_nodes = {}

\* generate_rr_sets_collection is not part of the run
NoGenerator ==
    /\ g = NoGraph
    /\ num_samples = 0
    /\ gen_pc = "idle"
    /\ FreshGenerator

\* find_seed_set has not been entered: its locals do not exist yet
FreshLocals ==
    /\ node_to_rr_indices = <<>>
    /\ marginal_gains = <<>>
    /\ seed_set = <<>>
    /\ covered_rr_mask = <<>>
    /\ pass_count = <<>>
    /\ decrement_work = 0
    /\ iter = 0
    /\ best_node = 0
    /\ pos = 1
    /\ exception = "none"
    /\ repeated = FALSE
    /\ prev_k = 0
    /\ prev_seed_set = <<>>

Init ==
    /\ rr_sets \in Collections
    /\ k \in Budgets
    /\ num_vertices \in VertexCounts
    /\ pc = "call"
    /\ FreshLocals
    /\ NoGenerator

Next ==
    \/ EarlyReturn
    \/ BuildIndex
    \/ ArgMaxRaises
    \/ StopEarly
    \/ SelectBest
    \/ SkipCovered
    \/ CoverAndDecrement
    \/ DecrementRaises
    \/ LoopExhausted
    \/ CallAgain

Spec == Init /\ [][Next]_vars

\* find_seed_set is not part of the run
NoSelector ==
    /\ rr_sets = <<>>
    /\ k = 0
    /\ num_vertices = 0
    /\ pc = "idle"
    /\ FreshLocals

\* one call of generate_rr_set on every graph with a scalar floating-point 'p'
InitSampler ==
    /\ g \in GraphsOfType(MaxGraphVertices, MaxEdges, TypeDouble, Probs)
    /\ num_samples = 1
    /\ gen_pc = "call"
    /\ FreshGenerator
    /\ NoSelector

NextSampler ==
    \/ Validated
    \/ SampleEmptyGraph
    \/ DrawSample
    \/ ReturnRRSet
    \/ CollectionReturn

SpecSampler == InitSampler /\ [][NextSampler]_vars

\* generate_rr_sets_collection on small graphs of every value type of 'p'
BuilderGraphs ==
    UNION {GraphsOfType(MaxGraphVertices - 1, MaxEdges - 1, t,
                        IF t \in ScalarFloatTypes THEN Probs ELSE {0}) :
            t \in ValueTypes \cup {TypeMissing}}

InitBuilder ==
    /\ g \in BuilderGraphs
    /\ num_samples \in -1 .. MaxSamples
    /\ gen_pc = "call"
    /\ FreshGenerator
    /\ NoSelector

NextBuilder ==
    \/ ReturnEmpty
    \/ MissingProperty
    \/ WrongType
    \/ Validated
    \/ SampleEmptyGraph
    \/ DrawSample
    \/ ReturnRRSet
    \/ SampleRaises
    \/ CollectionReturn

SpecBuilder == InitBuilder /\ [][NextBuilder]_vars

\* The scenario of the specification's testable properties: vertices
\* {0, 1, 2, 3}, edges 0->1, 1->2, 3->2, every probability 1.0; RR sets are
\* generated and find_seed_set is called on them with k = 1.
MaxScenarioSamples == 6

ScenarioGraph ==
    [num_vertices |-> Cardinality({0, 1, 2, 3}),
     edges |-> << <<0, 1>>, <<1, 2>>, <<3, 2>> >>,
     p_type |-> TypeDouble,
     p |-> <<ProbScale, ProbScale, ProbScale>>]

\* the RR set the specification lists for each root
ScenarioRRSet == [r \in {0, 1, 2, 3} |->
    CASE r = 0 -> {0}
      [] r = 1 -> {1, 0}
      [] r = 2 -> {2, 1, 0, 3}
      [] r = 3 -> {3}]

SelectFromCollection ==
    /\ gen_pc = "returned"
    /\ pc = "idle"
    /\ rr_sets' = gen_rr_sets
    /\ k' = 1
    /\ num_vertices' = g.num_vertices
    /\ pc' = "call"
    /\ UNCHANGED <<node_to_rr_indices, marginal_gains, seed_set, covered_rr_mask,
                   iter, best_node, pos, exception, pass_count, decrement_work,
                   repeated, prev_k, prev_seed_set, genVars>>

InitScenario ==
    /\ g = ScenarioGraph
    /\ num_samples \in 1 .. MaxScenarioSamples
    /\ gen_pc = "call"
    /\ FreshGenerator
    /\ NoSelector

NextScenario ==
    \/ Validated
    \/ DrawSample
    \/ ReturnRRSet
    \/ CollectionReturn
    \/ SelectFromCollection
    \/ BuildIndex
    \/ SelectBest
    \/ CoverAndDecrement
    \/ LoopExhausted

SpecScenario == InitScenario /\ [][NextScenario]_vars

--------------------------------------------------------------------------
(* Properties of find_seed_set (Spec) *)

Vertices == 0 .. (num_vertices - 1)

RRIndices == 1 .. Len(rr_sets)

\* every vertex id of the collection lies in [0, num_vertices)
VerticesInRange == \A i \in RRIndices : rr_sets[i] \subseteq Vertices

\* v has been appended to the seed set
Selected(v) == v \in SeqRange(seed_set)

\* the number of RR sets that contain v and are not marked covered
UncoveredCount(v) ==
    Cardinality({i \in RRIndices : v \in rr_sets[i] /\ ~covered_rr_mask[i]})

\* find_seed_set is past line 48 and has not raised
InLoop == pc \in {"select", "update"} \/ (pc = "returned" /\ rr_sets # <<>> /\ k # 0)

\* the index is built, or an iteration (selection and decrement pass) is complete
IterationCompleted == InLoop /\ pc # "update"

\* C1: on a collection whose ids are in range, after every completed
\* iteration of the selection loop the gain of each vertex not yet selected
\* is the number of uncovered RR sets that contain it.
C1_GainIsUncoveredCount ==
    (VerticesInRange /\ IterationCompleted) =>
        \A v \in Vertices : ~Selected(v) => marginal_gains[v] = UncoveredCount(v)

\* two seeds are selected, an RR set was skipped as already covered, and a
\* vertex not selected has lost a part of its gain and kept another
C1_Witness ==
    /\ VerticesInRange
    /\ pc = "select"
    /\ Len(seed_set) = 2
    /\ seed_set[1] # seed_set[2]
    /\ \E i \in RRIndices : {seed_set[1], seed_set[2]} \subseteq rr_sets[i]
    /\ \E v \in Vertices :
        /\ ~Selected(v)
        /\ marginal_gains[v] < Len(node_to_rr_indices[v])

NoDuplicates(seq) == \A i, j \in 1 .. Len(seq) : i # j => seq[i] # seq[j]

\* the vertices below num_vertices that appear in some RR set
CoveringVertices == {v \in Vertices : \E i \in RRIndices : v \in rr_sets[i]}

\* C2: the seed set never holds a vertex twice and is never longer than the
\* number of vertices that appear in some RR set, whatever the budget.
C2_NeverOverSelects ==
    InLoop => /\ NoDuplicates(seed_set)
              /\ Len(seed_set) <= Cardinality(CoveringVertices)

\* C5: when find_seed_set has returned S for budget k and then returns T for
\* budget k + 1 on the same collection and vertex count, S is a prefix of T.
C5_MonotonicPrefix ==
    (pc = "returned" /\ repeated /\ k = prev_k + 1) =>
        IsPrefix(prev_seed_set, seed_set)

\* budget 2 returned two seeds and budget 3 one more
C5_Witness ==
    /\ pc = "returned"
    /\ repeated
    /\ k = prev_k + 1
    /\ Len(prev_seed_set) = 2
    /\ Len(seed_set) = 3
    /\ NoDuplicates(seed_set)

\* the vertices holding the maximal gain
MaximalVertices(gains) == {v \in DOMAIN gains : \A u \in DOMAIN gains : gains[u] <= gains[v]}

SmallestOf(S) == CHOOSE v \in S : \A u \in S : v <= u

\* C6: every selection step appends the smallest vertex id among those of
\* maximal gain, and a second call with the same collection, budget and vertex
\* count returns the same seed set.
C6_SmallestIdAmongMaximal ==
    /\ [][(pc = "select" /\ Len(seed_set') = Len(seed_set) + 1) =>
            seed_set'[Len(seed_set')] = SmallestOf(MaximalVertices(marginal_gains))]_vars
    /\ []((pc = "returned" /\ repeated /\ k = prev_k) => seed_set = prev_seed_set)

\* the first selection was made among tied vertices, and the call was repeated
\* with the same budget
C6_Witness ==
    /\ pc = "returned"
    /\ repeated
    /\ k = prev_k
    /\ Len(seed_set) >= 2
    /\ \E u \in Vertices :
        /\ u > seed_set[1]
        /\ Len(node_to_rr_indices[u]) = Len(node_to_rr_indices[seed_set[1]])

PositionIn(v, i) ==
    CHOOSE q \in 1 .. Len(node_to_rr_indices[v]) : node_to_rr_indices[v][q] = i

\* RR set i contains a seed whose decrement pass has reached i: a seed of an
\* earlier iteration, or the seed of the current one with the inner loop past i
PassReached(i) ==
    \E j \in 1 .. Len(seed_set) :
        /\ seed_set[j] \in rr_sets[i]
        /\ \/ j < Len(seed_set)
           \/ pc # "update"
           \/ PositionIn(seed_set[j], i) < pos

\* a step inside one run of find_seed_set
RunStep == pc \in {"select", "update"} /\ pc' \in {"select", "update", "returned", "raised"}

\* C9: within one run a mask entry only goes from false to true, a decrement
\* pass over RR set i runs exactly in the step that marks i, the decrements
\* are in all at most the sum of the RR set sizes, and an entry is true iff its
\* RR set contains a seed whose decrement pass has reached it.
C9_PassExactlyAtCovering ==
    /\ [][RunStep =>
            \A i \in RRIndices :
                /\ covered_rr_mask[i] => covered_rr_mask'[i]
                /\ pass_count'[i] - pass_count[i] =
                       IF ~covered_rr_mask[i] /\ covered_rr_mask'[i] THEN 1 ELSE 0]_vars
    /\ [](InLoop =>
            /\ decrement_work <= TotalSize(rr_sets)
            /\ \A i \in RRIndices : covered_rr_mask[i] <=> PassReached(i))

\* in the middle of the second seed's inner loop, after a covered RR set was
\* skipped: one RR set still unmarked, decrements already made
C9_Witness ==
    /\ pc = "update"
    /\ Len(seed_set) = 2
    /\ seed_set[1] # seed_set[2]
    /\ pos = 2
    /\ seed_set[1] \in rr_sets[node_to_rr_indices[best_node][1]]
    /\ ~covered_rr_mask[node_to_rr_indices[best_node][2]]
    /\ decrement_work >= 2

\* C10: with k >= 1, find_seed_set returns normally on every collection, also
\* when an RR set holds an id >= num_vertices: no IndexError in the decrement
\* pass, and every returned seed is below num_vertices.
C10_ToleratesOutOfRangeIds ==
    k >= 1 =>
        /\ ~(pc = "raised" /\ exception = "IndexError")
        /\ pc = "returned" => \A j \in 1 .. Len(seed_set) : seed_set[j] < num_vertices

--------------------------------------------------------------------------
(* Properties of generate_rr_set (SpecSampler) *)

GraphVertices == 0 .. (g.num_vertices - 1)

\* the edges <<source, target>> whose draw is strictly below their probability
LiveEdges(draws) ==
    {g.edges[e] : e \in {x \in 1 .. Len(g.edges) : draws[x] < g.p[x]}}

AllEdges == {g.edges[e] : e \in 1 .. Len(g.edges)}

\* S contains the source of every edge of E whose target it contains
ClosedUnder(S, E) == \A e \in E : e[2] \in S => e[1] \in S

\* S is the set of vertices from which root is reachable along edges of E:
\* the least set that contains root and is closed under E backwards
IsAncestorSet(S, root, E) ==
    /\ root \in S
    /\ S \subseteq GraphVertices
    /\ ClosedUnder(S, E)
    /\ \A T \in SUBSET GraphVertices : (root \in T /\ ClosedUnder(T, E)) => S \subseteq T

\* C4: the RR set that generate_rr_set is about to return is the set of
\* vertices from which the root is reachable along live edges; it contains the
\* root, is the full ancestor set when every probability is 1.0 and is {root}
\* when every probability is 0.0.
C4_RRSetIsLiveAncestorSet ==
    gen_pc = "in_sampler" =>
        /\ IsAncestorSet(reachable_nodes, root_node, LiveEdges(random_values))
        /\ root_node \in reachable_nodes
        /\ (\A e \in 1 .. Len(g.edges) : g.p[e] = ProbScale) =>
                IsAncestorSet(reachable_nodes, root_node, AllEdges)
        /\ (\A e \in 1 .. Len(g.edges) : g.p[e] = 0) => reachable_nodes = {root_node}

\* all edges are live, one of them of probability 0.5, and three vertices
\* reach a root other than vertex 0
C4_Witness ==
    /\ gen_pc = "in_sampler"
    /\ Len(g.edges) = MaxEdges
    /\ \E e \in 1 .. Len(g.edges) :
        /\ 0 < g.p[e] /\ g.p[e] < ProbScale
        /\ random_values[e] < g.p[e]
    /\ Cardinality(reachable_nodes) = 3
    /\ root_node # 0

--------------------------------------------------------------------------
(* Properties of generate_rr_sets_collection (SpecBuilder) *)

\* C7: with num_samples > 0 and a 'p' that is missing or not of a
\* floating-point kind, the call fails with a validation error before
\* generate_rr_set is called and returns nothing; with num_samples <= 0 it
\* returns the empty collection without error.
C7_ValidatesBeforeSampling ==
    gen_pc # "call" =>
        /\ (num_samples > 0 /\ g.p_type \notin ScalarFloatTypes) =>
            /\ gen_pc = "raised"
            /\ gen_exception \in {"ValueError", "TypeError"}
            /\ sampler_calls = 0
            /\ gen_rr_sets = <<>>
        /\ num_samples <= 0 =>
            /\ gen_pc = "returned"
            /\ gen_exception = "none"
            /\ gen_rr_sets = <<>>

--------------------------------------------------------------------------
(* Properties of the scenario (SpecScenario) *)

\* the number of RR sets of the collection that are the RR set rooted at r
RootCount(r) == Cardinality({i \in RRIndices : rr_sets[i] = ScenarioRRSet[r]})

\* each of the four vertices was drawn as root at least once
AllRootsDrawn == \A r \in {0, 1, 2, 3} : RootCount(r) >= 1

\* C3 as stated: with every vertex drawn as root at least once, find_seed_set
\* with k = 1 returns [2].
C3_SelectsVertexTwo ==
    (pc = "returned" /\ AllRootsDrawn) => seed_set = <<2>>

\* C3 as amended: every RR set is the one listed for its root; with every
\* vertex drawn as root at least once, find_seed_set with k = 1 returns [0],
\* unless root 3 was drawn more often than roots 0 and 1 together, and then [3].
C3_SelectsVertexZeroOrThree ==
    /\ gen_pc = "in_sampler" => reachable_nodes = ScenarioRRSet[root_node]
    /\ (pc = "returned" /\ AllRootsDrawn) =>
            seed_set = IF RootCount(3) > RootCount(0) + RootCount(1)
                       THEN <<3>> ELSE <<0>>

\* every root drawn, vertices 0 and 3 in equally many RR sets, [0] returned
C3_Witness ==
    /\ pc = "returned"
    /\ AllRootsDrawn
    /\ RootCount(3) = RootCount(0) + RootCount(1)
    /\ seed_set = <<0>>

==========================================================================
